---- MODULE Spec2Model ----
(***************************************************************************)
(* A model of the BST visualizer's step-recording algorithm core           *)
(* (src/src/core/bst.ts) and of its playback controller                    *)
(* (src/src/canvas/useCanvas.ts, createPlayback).                          *)
(*                                                                         *)
(* Tree nodes are objects on a heap: a reference is an index into the      *)
(* sequence heap, NULL is the null reference.  Operations thread the heap  *)
(* and the closure variables (steps, pathEdges, pathNodes, root) through   *)
(* a context record, as the closures of the source share them.            *)
(***************************************************************************)
EXTENDS Integers, Sequences, FiniteSets, TLC

VARIABLES heap, tree, last, steps, index, timerId, timers, speed, events, calls,
          animating, isPlaying, totalSteps, finalTree, retired, cancelled

vars == <<heap, tree, last, steps, index, timerId, timers, speed, events, calls,
          animating, isPlaying, totalSteps, finalTree, retired, cancelled>>

coreVars == <<heap, tree, last>>

pbVars == <<steps, index, timerId, timers, speed, events, calls>>

\* The application's state beside the tree: the flags and the step count the
\* control bar is drawn from, the final tree the running animation ends on, and
\* of the timers of controllers the application has replaced, those still
\* pending (retired) and those the last launch cleared (cancelled).
appVars == <<animating, isPlaying, totalSteps, finalTree, retired, cancelled>>

\* ------------------------------------------------------------------ bounds

\* Node values and value arguments range over 0..MaxVal.
MaxVal == 3

\* Step lists handed to the playback controller have at most MaxSteps steps.
MaxSteps == 3

\* At most MaxCalls control calls are made on one controller.
MaxCalls == 3

\* insertNode is called on trees of fewer than MaxNodes nodes.
MaxNodes == 4

Values == 0 .. MaxVal

\* Arguments of selectKth: non-positive, in range and beyond the node count.
Ranks == -1 .. (MaxVal + 2)

\* ------------------------------------------------------------------ heap

\* The null reference (TreeNode | null).
NULL == 0

\* A number | null or optional number that is absent (parent, codeLine, activeNode, result).
None == -1

\* { value, left: null, right: null }
newNode(value) == [value |-> value, left |-> NULL, right |-> NULL]

\* Allocate an object: the heap with it, and the reference to it.
new(h, n) == [heap |-> Append(h, n), ref |-> Len(h) + 1]

\* The fresh objects of a clone, in the order they are allocated on a heap that
\* holds base objects: the clones l of the left subtree, the clones r of the right
\* subtree, then { value, left: <l's root>, right: <r's root> }.
cloneOf(value, l, r, base) ==
    l \o r \o <<[value |-> value,
                 left |-> IF l = <<>> THEN NULL ELSE base + Len(l),
                 right |-> IF r = <<>> THEN NULL ELSE base + Len(l) + Len(r)]>>

\* cloneTree(node.right), evaluated after the clones l of node.left.
RECURSIVE cloneNodes(_, _, _)
cloneRight(h, node, base, l) ==
    cloneOf(h[node].value, l, cloneNodes(h, h[node].right, base + Len(l)), base)

\* The fresh objects cloneTree(node) allocates on a heap that holds base objects.
cloneNodes(h, node, base) ==
    IF node = NULL THEN <<>>
    ELSE cloneRight(h, node, base, cloneNodes(h, h[node].left, base))

\* The heap with the fresh objects ns of a tree, and the reference to its root,
\* the object allocated last.
allocated(h, ns) == [heap |-> h \o ns, ref |-> IF ns = <<>> THEN NULL ELSE Len(h) + Len(ns)]

\* A clone that returns the tree it was given.
cloneTreeAlias(h, node) == [heap |-> h, ref |-> node]

\* Deep-clone a tree; allocates one fresh node per node of the tree.
cloneTree(h, node) == allocated(h, cloneNodes(h, node, Len(h)))

RECURSIVE countNodes(_, _)
countNodes(h, node) ==
    IF node = NULL THEN 0
    ELSE 1 + countNodes(h, h[node].left) + countNodes(h, h[node].right)

RECURSIVE findMin(_, _)
findMin(h, node) ==
    IF h[node].left # NULL THEN findMin(h, h[node].left) ELSE node

\* ------------------------------------------------------------------ Map<number, HighlightType>

\* A Map is the sequence of its entries <<key, type>> in insertion order, keys unique.
RECURSIVE MapSet(_, _, _)
MapSet(m, k, t) ==
    IF m = <<>> THEN << <<k, t>> >>
    ELSE IF Head(m)[1] = k THEN << <<k, t>> >> \o Tail(m)
    ELSE << Head(m) >> \o MapSet(Tail(m), k, t)

\* new Map(entries)
RECURSIVE NewMap(_)
NewMap(entries) ==
    IF entries = <<>> THEN <<>>
    ELSE MapSet(NewMap(SubSeq(entries, 1, Len(entries) - 1)),
                entries[Len(entries)][1], entries[Len(entries)][2])

\* ------------------------------------------------------------------ steps

\* A description template with its interpolated numbers.
D(text, a, b) == [text |-> text, a |-> a, b |-> b]

\* The step object around its tree snapshot cl, with the heap after the snapshot.
stepWith(cl, description, highlights, edges, codeLine, activeNode) ==
    [heap |-> cl.heap,
     step |-> [tree |-> cl.ref, description |-> description,
               highlightNodes |-> highlights, highlightEdges |-> edges,
               codeLine |-> codeLine, activeNode |-> activeNode]]

\* makeStep with tree: tree in place of tree: cloneTree(tree)
makeStepShared(h, t, description, highlights, edges, codeLine, activeNode) ==
    stepWith([heap |-> h, ref |-> t], description, NewMap(highlights), edges,
             codeLine, activeNode)

makeStep(h, t, description, highlights, edges, codeLine, activeNode) ==
    stepWith(cloneTree(h, t), description, NewMap(highlights), edges, codeLine, activeNode)

\* makeTraversalStep with tree: cloneTree(null) in place of cloneTree(tree)
makeTraversalStepOfNull(h, t, description, currentNode, currentType, visitedNodes, visitedEdges, codeLine) ==
    stepWith(cloneTree(h, NULL), description,
             MapSet(NewMap(visitedNodes), currentNode, currentType), visitedEdges,
             codeLine, currentNode)

makeTraversalStep(h, t, description, currentNode, currentType, visitedNodes, visitedEdges, codeLine) ==
    stepWith(cloneTree(h, t), description,
             MapSet(NewMap(visitedNodes), currentNode, currentType), visitedEdges,
             codeLine, currentNode)

\* The closure state of one operation: the heap, the step list, the path
\* (or visited) edges and nodes, the closure's root variable, and selectKth's
\* count and result.
NewCtx(h, root) ==
    [heap |-> h, steps |-> <<>>, pathEdges |-> <<>>, pathNodes |-> <<>>, root |-> root,
     count |-> 0, result |-> None]

\* steps.push(s)
push(c, s) == [c EXCEPT !.heap = s.heap, !.steps = Append(@, s.step)]

\* steps.push(makeTraversalStep(root, description, node, type, pathNodes, pathEdges, codeLine))
pushTraversal(c, description, currentNode, currentType, codeLine) ==
    push(c, makeTraversalStep(c.heap, c.root, description, currentNode, currentType,
                              c.pathNodes, c.pathEdges, codeLine))

\* steps.push(makeStep(root, description, [...pathNodes.entries()], [...pathEdges], codeLine))
pushStep(c, description, codeLine) ==
    push(c, makeStep(c.heap, c.root, description, c.pathNodes, c.pathEdges, codeLine, None))

\* pathNodes.set(value, type)
markValue(c, value, type) == [c EXCEPT !.pathNodes = MapSet(@, value, type)]

\* pathNodes.set(node.value, type)
mark(c, node, type) == markValue(c, c.heap[node].value, type)

\* if (parent !== null) pathEdges.push([node.value, parent])
pushPathEdgeReversed(c, node, parent) ==
    IF parent # None
    THEN [c EXCEPT !.pathEdges = Append(@, <<c.heap[node].value, parent>>)]
    ELSE c

\* if (parent !== null) pathEdges.push([parent, node.value])
pushPathEdge(c, node, parent) ==
    IF parent # None
    THEN [c EXCEPT !.pathEdges = Append(@, <<parent, c.heap[node].value>>)]
    ELSE c

\* The entry of a visited node without its path edge.
enterNodeWithoutEdge(c, node, parent) == mark(c, node, "visiting")

\* The entry of a visited node: its path edge, then its 'visiting' mark.
enterNode(c, node, parent) == mark(pushPathEdge(c, node, parent), node, "visiting")

\* The statements that led to the closure state c have run.  An operator's
\* argument is evaluated where the operator first reads it; reading c on entry
\* evaluates the statements in program order, so that the evaluation nests as
\* deep as the program's recursion and not as deep as the step list is long.
ran(c) == c.count >= 0

\* The closure state after the opening step s0 of an operation on root.
opened(s0, root) == [NewCtx(s0.heap, root) EXCEPT !.steps = <<s0.step>>]

\* ------------------------------------------------------------------ search

\* node = value < node.value ? node.left : node.right
searchNextSwapped(h, node, value) ==
    IF value < h[node].value THEN h[node].right ELSE h[node].left

searchNext(h, node, value) ==
    IF value < h[node].value THEN h[node].left ELSE h[node].right

RECURSIVE searchLoop(_, _, _, _)
\* The loop body after the 'Visit node' step.
searchVisit(c, value, node) ==
    LET nv == c.heap[node].value
    IN  IF value = nv THEN
            [found |-> TRUE,
             c |-> pushTraversal(
                       pushTraversal(mark(c, node, "found"),
                                     D("Found!", nv, value), nv, "found", 2),
                       D("is found", value, None), nv, "found", 3)]
        ELSE searchLoop(
                 IF value < nv
                 THEN pushTraversal(c, D("go left", value, nv), nv, "visiting", 6)
                 ELSE pushTraversal(c, D("go right", value, nv), nv, "visiting", 5),
                 value, searchNext(c.heap, node, value), nv)

searchLoop(c0, value, node, parent) ==
    IF ran(c0) /\ node = NULL THEN
        [found |-> FALSE,
         c |-> pushStep(pushStep(c0, D("Reached null", None, None), 0),
                        D("not found in tree", value, None), 1)]
    ELSE searchVisit(
             pushTraversal(enterNode(c0, node, parent),
                           D("Visit node", c0.heap[node].value, None),
                           c0.heap[node].value, "visiting", 0),
             value, node)

\* { found, steps } of the finished loop
searchResult(r) == [found |-> r.found, steps |-> r.c.steps, heap |-> r.c.heap]

searchNode(h, root, value) ==
    searchResult(searchLoop(NewCtx(h, root), value, root, None))

\* ------------------------------------------------------------------ insert

\* node.right = <r>; return node, in place of node.left = <r>
setLeftOnRight(r, node) == [c |-> [r.c EXCEPT !.heap[node].right = r.ret], ret |-> node]

\* node.left = <r>; return node
setLeft(r, node) == [c |-> [r.c EXCEPT !.heap[node].left = r.ret], ret |-> node]

\* node.right = <r>; return node
setRight(r, node) == [c |-> [r.c EXCEPT !.heap[node].right = r.ret], ret |-> node]

\* The allocation of a new leaf by the recursive insert.
insertLeaf(c, n) == [c |-> [c EXCEPT !.heap = n.heap], ret |-> n.ref]

\* else, in place of else if (value > node.value)
insertGoesRightOrEqual(value, nv) == value >= nv

\* else if (value > node.value)
insertGoesRight(value, nv) == value > nv

RECURSIVE insert(_, _, _, _)
\* The body of insert after the 'Compare' step.
insertAt(c, value, node) ==
    LET nv == c.heap[node].value
    IN  IF value < nv THEN
            setLeft(insert(pushTraversal(c, D("go left", value, nv), nv, "visiting", 2),
                           value, c.heap[node].left, nv), node)
        ELSE IF insertGoesRight(value, nv) THEN
            setRight(insert(pushTraversal(c, D("go right", value, nv), nv, "visiting", 4),
                            value, c.heap[node].right, nv), node)
        ELSE [c |-> c, ret |-> node]

insert(c0, value, node, parent) ==
    IF ran(c0) /\ node = NULL THEN insertLeaf(c0, new(c0.heap, newNode(value)))
    ELSE insertAt(pushTraversal(enterNode(c0, node, parent),
                                D("Compare", value, c0.heap[node].value),
                                c0.heap[node].value, "visiting", 0),
                  value, node)

\* { root, steps } of an operation whose closure state is c
rootResult(c) == [root |-> c.root, steps |-> c.steps, heap |-> c.heap]

\* root = insert(root, null); pathNodes.set(value, 'inserting'); the closing step
insertClose(r, value) ==
    rootResult(pushStep(markValue([r.c EXCEPT !.root = r.ret], value, "inserting"),
                        D("Inserted", value, None), 1))

\* The insert into the clone cl of a non-empty tree.
insertInto(cl, value) ==
    insertClose(insert(NewCtx(cl.heap, cl.ref), value, cl.ref, None), value)

\* The insert into the empty tree: the new root n and its single step.
insertRoot(n, value) ==
    rootResult(opened(makeStep(n.heap, n.ref, D("Insert as root", value, None),
                               << <<value, "inserting">> >>, <<>>, 1, None),
                      n.ref))

insertNode(h, root, value) ==
    IF root = NULL THEN insertRoot(new(h, newNode(value)), value)
    ELSE insertInto(cloneTree(h, root), value)

\* ------------------------------------------------------------------ remove

\* node.value = successor.value
setValue(c, node, value) == [c EXCEPT !.heap[node].value = value]

RECURSIVE remove(_, _, _, _)
\* Two children: the successor steps, the value replaced, the recursive remove
\* on the right subtree.
removeTwoChildren(c, value, node, successor) ==
    LET sv == c.heap[successor].value
        nv == c.heap[node].value
    IN  setRight(
            remove(setValue(pushStep(pushStep(markValue(c, sv, "found"),
                                              D("Two children, find successor", sv, None), 9),
                                     D("Replace", nv, sv), 10),
                            node, sv),
                   value, c.heap[node].right, sv),
            node)

\* The body of remove after the 'Found, removing' step that returns null for
\* every found node, as for a leaf.
removeFoundAsLeaf(c, value, node) ==
    [c |-> pushTraversal(c, D("is a leaf, remove it", c.heap[node].value, None),
                         c.heap[node].value, "removing", 7),
     ret |-> NULL]

\* The body of remove after the 'Found, removing' step.
removeFound(c, value, node) ==
    LET nv == c.heap[node].value
        l  == c.heap[node].left
        rt == c.heap[node].right
    IN  IF l = NULL /\ rt = NULL THEN
            [c |-> pushTraversal(c, D("is a leaf, remove it", nv, None), nv, "removing", 7),
             ret |-> NULL]
        ELSE IF l = NULL THEN
            [c |-> pushTraversal(c, D("has one child, replace", nv, None), nv, "removing", 8),
             ret |-> rt]
        ELSE IF rt = NULL THEN
            [c |-> pushTraversal(c, D("has one child, replace", nv, None), nv, "removing", 8),
             ret |-> l]
        ELSE removeTwoChildren(c, value, node, findMin(c.heap, rt))

\* The body of remove after the 'Visit' step.
removeAt(c, value, node) ==
    LET nv == c.heap[node].value
    IN  IF value < nv THEN
            setLeft(remove(pushTraversal(c, D("go left", value, nv), nv, "visiting", 2),
                           value, c.heap[node].left, nv), node)
        ELSE IF value > nv THEN
            setRight(remove(pushTraversal(c, D("go right", value, nv), nv, "visiting", 4),
                            value, c.heap[node].right, nv), node)
        ELSE removeFound(pushTraversal(mark(c, node, "removing"),
                                       D("Found, removing", nv, None), nv, "removing", 6),
                         value, node)

remove(c0, value, node, parent) ==
    IF ran(c0) /\ node = NULL THEN
        [c |-> pushStep(c0, D("not found", value, None), 1), ret |-> NULL]
    ELSE removeAt(pushTraversal(enterNode(c0, node, parent),
                                D("Visit", c0.heap[node].value, None),
                                c0.heap[node].value, "visiting", 0),
                  value, node)

\* root = remove(root, null); the closing step
\* root = remove(root, null) without the closing step
removeCloseSilent(r) == rootResult([r.c EXCEPT !.root = r.ret])

\* root = remove(root, null); the closing step, pushed twice
removeCloseTwice(r) ==
    rootResult(pushStep(pushStep([r.c EXCEPT !.root = r.ret],
                                 D("Removal complete", None, None), None),
                        D("Removal complete", None, None), None))

\* root = remove(root, null); the closing step
removeClose(r) ==
    rootResult(pushStep([r.c EXCEPT !.root = r.ret], D("Removal complete", None, None), None))

\* The remove on the clone cl of the tree.
removeFrom(cl, value) == removeClose(remove(NewCtx(cl.heap, cl.ref), value, cl.ref, None))

removeNode(h, root, value) == removeFrom(cloneTree(h, root), value)

\* ------------------------------------------------------------------ traversals

\* if (child) visitedEdges.push([node.value, child.value])
pushChildEdge(c, node, child) ==
    IF child # NULL
    THEN [c EXCEPT !.pathEdges = Append(@, <<c.heap[node].value, c.heap[child].value>>)]
    ELSE c

\* The 'Go left' / 'Go right' step of a walk and the edge to that child.
goChild(c, node, child, text, codeLine) ==
    pushChildEdge(pushTraversal(c, D(text, c.heap[node].value, None),
                                c.heap[node].value, "visiting", codeLine),
                  node, child)

\* The 'Visit' step of a walk without its visitedNodes.set(node.value, 'found').
visitUnmarked(c, node, text, codeLine) ==
    pushTraversal(c, D(text, c.heap[node].value, None), c.heap[node].value, "found", codeLine)

\* visitedNodes.set(node.value, 'found') and the 'Visit' step of a walk.
visit(c, node, text, codeLine) ==
    pushTraversal(mark(c, node, "found"), D(text, c.heap[node].value, None),
                  c.heap[node].value, "found", codeLine)

\* { steps } of a traversal whose closure state is c
stepsResult(c) == [steps |-> c.steps, heap |-> c.heap]

RECURSIVE inorderWalk(_, _)
\* The body of walk after walk(node.left) has returned with the closure state c.
inorderRight(c, node) ==
    IF ran(c)
    THEN inorderWalk(goChild(visit(c, node, "Visit (in-order)", 3),
                             node, c.heap[node].right, "Go right from", 4),
                     c.heap[node].right)
    ELSE c

inorderWalk(c0, node) ==
    IF ran(c0) /\ node = NULL THEN c0
    ELSE inorderRight(inorderWalk(goChild(c0, node, c0.heap[node].left, "Go left from", 2),
                                  c0.heap[node].left),
                      node)

RECURSIVE preorderWalk(_, _)
\* The body of walk after walk(node.left) has returned with the closure state c.
preorderRight(c, node) ==
    IF ran(c)
    THEN preorderWalk(goChild(c, node, c.heap[node].right, "Go right from", 4),
                      c.heap[node].right)
    ELSE c

preorderWalk(c0, node) ==
    IF ran(c0) /\ node = NULL THEN c0
    ELSE preorderRight(preorderWalk(goChild(visit(c0, node, "Visit (pre-order)", 2),
                                            node, c0.heap[node].left, "Go left from", 3),
                                    c0.heap[node].left),
                       node)

RECURSIVE postorderWalk(_, _)
\* The body of walk after walk(node.right) has returned with the closure state c.
postorderVisit(c, node) ==
    IF ran(c) THEN visit(c, node, "Visit (post-order)", 4) ELSE c

\* The body of walk after walk(node.left) has returned with the closure state c.
postorderRight(c, node) ==
    IF ran(c)
    THEN postorderVisit(postorderWalk(goChild(c, node, c.heap[node].right, "Go right from", 3),
                                      c.heap[node].right),
                        node)
    ELSE c

postorderWalk(c0, node) ==
    IF ran(c0) /\ node = NULL THEN c0
    ELSE postorderRight(postorderWalk(goChild(c0, node, c0.heap[node].left, "Go left from", 2),
                                      c0.heap[node].left),
                        node)

\* An in-order traversal that walks in pre-order.
inorderAsPreorder(h, root) ==
    stepsResult(pushStep(preorderWalk(NewCtx(h, root), root),
                         D("In-order traversal complete", None, None), None))

inorderTraversal(h, root) ==
    stepsResult(pushStep(inorderWalk(NewCtx(h, root), root),
                         D("In-order traversal complete", None, None), None))

\* A pre-order traversal that walks in in-order.
preorderAsInorder(h, root) ==
    stepsResult(pushStep(inorderWalk(NewCtx(h, root), root),
                         D("Pre-order traversal complete", None, None), None))

preorderTraversal(h, root) ==
    stepsResult(pushStep(preorderWalk(NewCtx(h, root), root),
                         D("Pre-order traversal complete", None, None), None))

postorderTraversal(h, root) ==
    stepsResult(pushStep(postorderWalk(NewCtx(h, root), root),
                         D("Post-order traversal complete", None, None), None))

\* ------------------------------------------------------------------ predecessor / successor

\* if (value <= node.value): go left without a candidate
predGoesLeftStrict(value, nv) == value < nv

predGoesLeft(value, nv) == value <= nv

RECURSIVE predecessorLoop(_, _, _, _, _)
\* The loop body after the 'Visit' step; predecessor is the candidate node or NULL.
predecessorAt(c, value, node, predecessor) ==
    LET nv == c.heap[node].value
    IN  IF predGoesLeft(value, nv) THEN
            predecessorLoop(pushTraversal(c, D("<=, go left", value, nv), nv, "visiting", 3),
                            value, c.heap[node].left, nv, predecessor)
        ELSE
            predecessorLoop(pushTraversal(mark(c, node, "found"),
                                          D(">, candidate", value, nv), nv, "found", 5),
                            value, c.heap[node].right, nv, node)

predecessorLoop(c0, value, node, parent, predecessor) ==
    IF ran(c0) /\ node = NULL THEN [c |-> c0, node |-> predecessor]
    ELSE predecessorAt(pushTraversal(enterNode(c0, node, parent),
                                     D("Visit", c0.heap[node].value, None),
                                     c0.heap[node].value, "visiting", 1),
                       value, node, predecessor)

\* { result: candidate?.value ?? null, steps } of an operation whose closure state is c
candidateResult(c, candidate) ==
    [result |-> IF candidate # NULL THEN c.heap[candidate].value ELSE None,
     steps |-> c.steps, heap |-> c.heap]

\* The closing step of findPredecessor and its result.
predecessorClose(r, value) ==
    candidateResult(
        IF r.node # NULL
        THEN pushStep(r.c, D("Predecessor is", value, r.c.heap[r.node].value), 7)
        ELSE pushStep(r.c, D("No predecessor for", value, None), 7),
        r.node)

findPredecessor(h, root, value) ==
    predecessorClose(
        predecessorLoop(opened(makeStep(h, root, D("Finding predecessor of", value, None),
                                        <<>>, <<>>, 0, None), root),
                        value, root, None, NULL),
        value)

\* if (value >= node.value): go right without a candidate
succGoesRightStrict(value, nv) == value > nv

succGoesRight(value, nv) == value >= nv

RECURSIVE successorLoop(_, _, _, _, _)
successorAt(c, value, node, successor) ==
    LET nv == c.heap[node].value
    IN  IF succGoesRight(value, nv) THEN
            successorLoop(pushTraversal(c, D(">=, go right", value, nv), nv, "visiting", 3),
                          value, c.heap[node].right, nv, successor)
        ELSE
            successorLoop(pushTraversal(mark(c, node, "found"),
                                        D("<, candidate", value, nv), nv, "found", 5),
                          value, c.heap[node].left, nv, node)

successorLoop(c0, value, node, parent, successor) ==
    IF ran(c0) /\ node = NULL THEN [c |-> c0, node |-> successor]
    ELSE successorAt(pushTraversal(enterNode(c0, node, parent),
                                   D("Visit", c0.heap[node].value, None),
                                   c0.heap[node].value, "visiting", 1),
                     value, node, successor)

\* The closing step of findSuccessor and its result.
successorClose(r, value) ==
    candidateResult(
        IF r.node # NULL
        THEN pushStep(r.c, D("Successor is", value, r.c.heap[r.node].value), 7)
        ELSE pushStep(r.c, D("No successor for", value, None), 7),
        r.node)

findSuccessor(h, root, value) ==
    successorClose(
        successorLoop(opened(makeStep(h, root, D("Finding successor of", value, None),
                                      <<>>, <<>>, 0, None), root),
                      value, root, None, NULL),
        value)

\* ------------------------------------------------------------------ select k-th smallest

\* if (count === k), with the count taken as 0-based
isKthFromZero(count, k) == count = k + 1

isKth(count, k) == count = k

RECURSIVE selectWalk(_, _, _)
\* The body of walk after the 'Visit (count=N)' step.
selectAt(c, k, node) ==
    LET nv == c.heap[node].value
    IN  IF isKth(c.count, k) THEN
            pushTraversal(mark([c EXCEPT !.result = nv], node, "found"),
                          D("k-th smallest is", k, nv), nv, "found", 4)
        ELSE selectWalk(pushChildEdge(c, node, c.heap[node].right), k, c.heap[node].right)

\* count++; visitedNodes.set(node.value, 'visiting'); the 'Visit (count=N)' step
selectCount(c, node) ==
    IF ran(c)
    THEN pushTraversal(mark([c EXCEPT !.count = @ + 1], node, "visiting"),
                       D("Visit (count)", c.heap[node].value, c.count + 1),
                       c.heap[node].value, "visiting", 2)
    ELSE c

selectWalk(c0, k, node) ==
    IF node = NULL \/ c0.result # None THEN c0
    ELSE selectAt(selectCount(selectWalk(pushChildEdge(c0, node, c0.heap[node].left),
                                         k, c0.heap[node].left),
                              node),
                  k, node)

\* { result, steps } of selectKth whose closure state is c
selectResult(c) == [result |-> c.result, steps |-> c.steps, heap |-> c.heap]

\* The closing step of selectKth.
selectClose(c, k) ==
    selectResult(IF c.result = None
                 THEN pushStep(c, D("is out of range", k, None), 6)
                 ELSE pushStep(c, D("Result", c.result, None), 6))

selectKth(h, root, k) ==
    selectClose(selectWalk(opened(makeStep(h, root, D("Select k-th smallest", k, None),
                                           <<>>, <<>>, 0, None), root),
                           k, root),
                k)

\* ------------------------------------------------------------------ the tree as a value

\* The tree reachable from a reference: <<>> for null, <<value, left, right>> for a node.
RECURSIVE TreeOf(_, _)
TreeOf(h, node) ==
    IF node = NULL THEN <<>>
    ELSE <<h[node].value, TreeOf(h, h[node].left), TreeOf(h, h[node].right)>>

\* Allocate a tree value on a heap.
RECURSIVE AllocNodes(_, _)
AllocRight(t, base, l) == cloneOf(t[1], l, AllocNodes(t[3], base + Len(l)), base)

AllocNodes(t, base) ==
    IF t = <<>> THEN <<>>
    ELSE AllocRight(t, base, AllocNodes(t[2], base))

Alloc(h, t) == allocated(h, AllocNodes(t, Len(h)))

\* Garbage collection: only the nodes reachable from the retained root survive.
Collect(h, root) == Alloc(<<>>, TreeOf(h, root))

RECURSIVE Vals(_)
Vals(t) == IF t = <<>> THEN {} ELSE {t[1]} \cup Vals(t[2]) \cup Vals(t[3])

RECURSIVE Size(_)
Size(t) == IF t = <<>> THEN 0 ELSE 1 + Size(t[2]) + Size(t[3])

\* The strict BST invariant of the data model.
RECURSIVE IsBST(_)
IsBST(t) ==
    \/ t = <<>>
    \/ /\ \A x \in Vals(t[2]) : x < t[1]
       /\ \A x \in Vals(t[3]) : x > t[1]
       /\ IsBST(t[2])
       /\ IsBST(t[3])

\* The subtrees of a tree, the tree itself included.
RECURSIVE Subtrees(_)
Subtrees(t) == IF t = <<>> THEN {} ELSE {t} \cup Subtrees(t[2]) \cup Subtrees(t[3])

\* The values of a finite set of integers in ascending order.
RECURSIVE Ascending(_)
Ascending(S) ==
    IF S = {} THEN <<>>
    ELSE LET m == CHOOSE x \in S : \A y \in S : x <= y
         IN  <<m>> \o Ascending(S \ {m})

\* ------------------------------------------------------------------ the core as a state machine

NoCall == [op |-> "none", arg |-> None, T |-> NULL, before |-> <<>>, root |-> NULL,
           found |-> FALSE, result |-> None, steps |-> <<>>]

InitPlaybackVars ==
    /\ steps = <<>>
    /\ index = 0
    /\ timerId = NULL
    /\ timers = {}
    /\ speed = 2
    /\ events = <<>>
    /\ calls = <<>>

InitAppVars ==
    /\ animating = FALSE
    /\ isPlaying = FALSE
    /\ totalSteps = 0
    /\ finalTree = NULL
    /\ retired = {}
    /\ cancelled = {}

Init ==
    /\ heap = <<>>
    /\ tree = NULL
    /\ last = NoCall
    /\ InitPlaybackVars
    /\ InitAppVars

\* The record of a call op(T, arg) on the root T = g.ref that returned r.
callRecord(op, arg, g, r) ==
    [op |-> op, arg |-> arg, T |-> g.ref, before |-> TreeOf(g.heap, g.ref),
     root |-> IF "root" \in DOMAIN r THEN r.root ELSE g.ref,
     found |-> IF "found" \in DOMAIN r THEN r.found ELSE FALSE,
     result |-> IF "result" \in DOMAIN r THEN r.result ELSE None,
     steps |-> r.steps]

\* The caller's record of a call op(T, arg) on the current root T = g.ref that
\* returned r; the caller keeps T, and the returned root when there is one.
Returned(op, arg, g, r) ==
    /\ heap' = r.heap
    /\ tree' = IF "root" \in DOMAIN r THEN r.root ELSE g.ref
    /\ last' = callRecord(op, arg, g, r)
    /\ UNCHANGED <<pbVars, appVars>>

\* The operation named op of the core, called on the tree at root in h.
operation(op, arg, h, root) ==
    CASE op = "insert" -> insertNode(h, root, arg)
      [] op = "remove" -> removeNode(h, root, arg)
      [] op = "search" -> searchNode(h, root, arg)
      [] op = "predecessor" -> findPredecessor(h, root, arg)
      [] op = "successor" -> findSuccessor(h, root, arg)
      [] op = "selectKth" -> selectKth(h, root, arg)
      [] op = "inorder" -> inorderTraversal(h, root)
      [] op = "preorder" -> preorderTraversal(h, root)
      [] op = "postorder" -> postorderTraversal(h, root)

\* The call op(T, arg) on the caller's tree g.
Call(op, arg, g) == Returned(op, arg, g, operation(op, arg, g.heap, g.ref))

Insert(v) ==
    /\ countNodes(heap, tree) < MaxNodes
    /\ Call("insert", v, Collect(heap, tree))

Remove(v) == Call("remove", v, Collect(heap, tree))

Search(v) == Call("search", v, Collect(heap, tree))

Predecessor(v) == Call("predecessor", v, Collect(heap, tree))

Successor(v) == Call("successor", v, Collect(heap, tree))

SelectKth(k) == Call("selectKth", k, Collect(heap, tree))

Inorder == Call("inorder", None, Collect(heap, tree))

Preorder == Call("preorder", None, Collect(heap, tree))

Postorder == Call("postorder", None, Collect(heap, tree))

Next ==
    \/ \E v \in Values : Insert(v)
    \/ \E v \in Values : Remove(v)
    \/ \E v \in Values : Search(v)
    \/ \E v \in Values : Predecessor(v)
    \/ \E v \in Values : Successor(v)
    \/ \E k \in Ranks : SelectKth(k)
    \/ Inorder
    \/ Preorder
    \/ Postorder

Spec == Init /\ [][Next]_vars

\* ------------------------------------------------------------------ the default tree

\* Math.max(a, b)
mathMax(a, b) == IF a > b THEN a ELSE b

RECURSIVE treeHeight(_, _)
treeHeight(h, node) ==
    IF node = NULL THEN 0
    ELSE 1 + mathMax(treeHeight(h, h[node].left), treeHeight(h, h[node].right))

\* root.left = <n>; return root
plainSetLeft(n, root) == [heap |-> [n.heap EXCEPT ![root].left = n.ref], ref |-> root]

\* root.right = <n>; return root
plainSetRight(n, root) == [heap |-> [n.heap EXCEPT ![root].right = n.ref], ref |-> root]

\* if (value > root.value), in place of if (value < root.value)
insertPlainGoesLeftSwapped(value, rv) == value > rv

\* if (value < root.value)
insertPlainGoesLeft(value, rv) == value < rv

\* Plain insert without animation steps; it writes into the tree it is given.
RECURSIVE insertPlain(_, _, _)
insertPlain(h, root, value) ==
    IF root = NULL THEN new(h, newNode(value))
    ELSE IF insertPlainGoesLeft(value, h[root].value)
         THEN plainSetLeft(insertPlain(h, h[root].left, value), root)
    ELSE IF value > h[root].value
         THEN plainSetRight(insertPlain(h, h[root].right, value), root)
    ELSE [heap |-> h, ref |-> root]

insertOrder ==
    <<50, 30, 70, 15, 40, 60, 85,
      8, 22, 35, 45, 55, 65, 80, 95,
      4, 11, 20, 25,
      2, 1>>

\* for (const v of insertOrder) root = insertPlain(root, v), from the i-th value on
RECURSIVE forInsertOrder(_, _)
forInsertOrder(n, i) ==
    IF i > Len(insertOrder) THEN n
    ELSE forInsertOrder(insertPlain(n.heap, n.ref, insertOrder[i]), i + 1)

createDefaultTree == forInsertOrder([heap |-> <<>>, ref |-> NULL], 1)

\* The arguments the operations are called with on the default tree: its values
\* and values it does not hold, below, between and above them.
DefaultArgs == {insertOrder[i] : i \in 1 .. Len(insertOrder)} \cup {0, 3, 26, 31, 52, 99}

\* The ranks selectKth is called with on the default tree.
DefaultRanks == 0 .. (Len(insertOrder) + 1)

\* const [tree, setTree] = useState(createDefaultTree)
InitDefault ==
    /\ heap = createDefaultTree.heap
    /\ tree = createDefaultTree.ref
    /\ last = NoCall
    /\ InitPlaybackVars
    /\ InitAppVars

NextDefault ==
    \/ \E v \in DefaultArgs : Search(v)
    \/ \E v \in DefaultArgs : Predecessor(v)
    \/ \E v \in DefaultArgs : Successor(v)
    \/ \E k \in DefaultRanks : SelectKth(k)
    \/ Inorder
    \/ Preorder
    \/ Postorder

SpecDefault == InitDefault /\ [][NextDefault]_vars

\* ------------------------------------------------------------------ create random tree

\* createRandomTree is explored with random numbers Math.floor(Math.random() * 99)
\* below CreateMaxVal and runs of at most CreateMaxDraws draws.
CreateMaxVal == 6

CreateMaxDraws == 3

\* Math.floor(Math.random() * 99) + 1, without the + 1
drawValueFromZero(u) == u

\* Math.floor(Math.random() * 99) + 1, for the random number u
drawValue(u) == u + 1

\* values.add(v) on a Set, the sequence of its elements in insertion order
setAdd(values, v) ==
    IF \E i \in 1 .. Len(values) : values[i] = v THEN values ELSE Append(values, v)

\* The Set after the draws ds have been added to it.
RECURSIVE drawn(_, _)
drawn(values, ds) ==
    IF ds = <<>> THEN values ELSE drawn(setAdd(values, drawValue(Head(ds))), Tail(ds))

\* while (values.size < size): the loop draws ds and stops, when the last draw
\* brings the Set to size elements.
drawsOf(size, ds) ==
    /\ Len(drawn(<<>>, ds)) = size
    /\ ds # <<>> => Len(drawn(<<>>, SubSeq(ds, 1, Len(ds) - 1))) < size

\* root = newRoot; allSteps.push(...steps)
inserted(acc, r) == [heap |-> r.heap, root |-> r.root, steps |-> acc.steps \o r.steps]

\* for (const v of values), from the i-th value on
RECURSIVE forValues(_, _, _)
forValues(acc, values, i) ==
    IF i > Len(values) THEN acc
    ELSE forValues(inserted(acc, insertNode(acc.heap, acc.root, values[i])), values, i + 1)

\* allSteps.push(s); return { root, steps: allSteps }
createSummary(acc, s) ==
    [root |-> acc.root, steps |-> Append(acc.steps, s.step), heap |-> s.heap]

\* createClose with makeStep(null, ...) in place of makeStep(root, ...)
createCloseOfNull(acc, size) ==
    createSummary(acc, makeStep(acc.heap, NULL, D("Created BST with nodes", size, None),
                                <<>>, <<>>, None, None))

\* The summary step after the loop.
createClose(acc, size) ==
    createSummary(acc, makeStep(acc.heap, acc.root, D("Created BST with nodes", size, None),
                                <<>>, <<>>, None, None))

\* createRandomTree(size) when the Set of random values is values.
createRandomTree(size, values) ==
    createClose(forValues([heap |-> <<>>, root |-> NULL, steps |-> <<>>], values, 1), size)

\* The caller's record of createRandomTree(size), with the draws made and the
\* Set they gave.
Created(size, ds, values, r) ==
    /\ heap' = r.heap
    /\ tree' = r.root
    /\ last' = [op |-> "create", arg |-> size, T |-> NULL, before |-> <<>>, root |-> r.root,
                found |-> FALSE, result |-> None, steps |-> r.steps,
                draws |-> ds, values |-> values]
    /\ UNCHANGED <<pbVars, appVars>>

CreatedOf(size, ds, values) == Created(size, ds, values, createRandomTree(size, values))

Create(size, ds) ==
    /\ drawsOf(size, ds)
    /\ CreatedOf(size, ds, drawn(<<>>, ds))

\* The runs of draws explored.
Draws == UNION {[1 .. n -> 0 .. (CreateMaxVal - 1)] : n \in 0 .. CreateMaxDraws}

NextCreate == \E size \in 0 .. CreateMaxDraws : \E ds \in Draws : Create(size, ds)

SpecCreate == Init /\ [][NextCreate]_vars

\* The three operations that build a tree, called in any order: a random tree
\* is created, values are inserted into the current tree and removed from it.
NextBuild ==
    \/ NextCreate
    \/ \E v \in Values : Insert(v)
    \/ \E v \in Values : Remove(v)

SpecBuild == Init /\ [][NextBuild]_vars

\* ------------------------------------------------------------------ the layout

LEVEL_GAP == 80

PADDING_TOP == 60

PADDING_X == 40

\* A RawPos is <<value, inorderIdx, depth, left, right>> and a PositionedNode is
\* <<value, x, y, left, right>>; null is <<>>. A coordinate that comes from a
\* division is kept as the fraction <<numerator, denominator>>, denominator > 0.
RECURSIVE assignIndices(_, _, _, _)

\* return { value: node.value, inorderIdx, depth, left, right }, and the
\* counter the two walks leave
assignNode(h, node, depth, l, r) ==
    [raw |-> <<h[node].value, l.idx, depth, l.raw, r.raw>>, idx |-> r.idx]

\* const inorderIdx = counter.idx++, then the walk of the right subtree
assignRight(h, node, depth, l) ==
    assignNode(h, node, depth, l, assignIndices(h, h[node].right, depth + 1, l.idx + 1))

\* assignIndices(node, depth, counter) with counter.idx = idx: the RawPos tree,
\* and counter.idx afterwards.
assignIndices(h, node, depth, idx) ==
    IF node = NULL THEN [raw |-> <<>>, idx |-> idx]
    ELSE assignRight(h, node, depth, assignIndices(h, h[node].left, depth + 1, idx))

\* const gap = totalNodes > 1 ? usableWidth / (totalNodes - 1) : 0
gapOf(totalNodes, usableWidth) ==
    IF totalNodes > 1 THEN <<usableWidth, totalNodes - 1>> ELSE <<0, 1>>

\* const x = PADDING_X + raw.inorderIdx * gap
xOf(inorderIdx, gap) == <<PADDING_X * gap[2] + inorderIdx * gap[1], gap[2]>>

\* const y = PADDING_TOP + raw.depth * LEVEL_GAP
yOf(depth) == PADDING_TOP + depth * LEVEL_GAP

RECURSIVE scaleTree(_, _, _)
scaleTree(raw, totalNodes, canvasWidth) ==
    IF raw = <<>> THEN <<>>
    ELSE <<raw[1],
           xOf(raw[2], gapOf(totalNodes, canvasWidth - PADDING_X * 2)),
           yOf(raw[3]),
           scaleTree(raw[4], totalNodes, canvasWidth),
           scaleTree(raw[5], totalNodes, canvasWidth)>>

layoutTree(h, root, canvasWidth) ==
    IF root = NULL THEN <<>>
    ELSE scaleTree(assignIndices(h, root, 0, 0).raw, countNodes(h, root), canvasWidth)

\* draw() lays the current tree out for the width w of the canvas's container;
\* the caller's record holds the positioned tree as result.
Layout(w) ==
    /\ last' = [op |-> "layout", arg |-> w, T |-> tree, before |-> TreeOf(heap, tree),
                root |-> tree, found |-> FALSE, result |-> layoutTree(heap, tree, w),
                steps |-> <<>>]
    /\ UNCHANGED <<heap, tree, pbVars, appVars>>

\* The widths explored: an empty container, one as wide as the two paddings,
\* one a pixel wider, and a wide one.
Widths == {0, 80, 81, 400}

\* The current tree is edited, and drawn at any width.
NextLayout ==
    \/ \E v \in Values : Insert(v)
    \/ \E v \in Values : Remove(v)
    \/ \E w \in Widths : Layout(w)

SpecLayout == Init /\ [][NextLayout]_vars

\* ------------------------------------------------------------------ the pseudocode

\* The lines registered for each operation kind.
PSEUDOCODE ==
    [search |-> <<"if this == null",
                     "  return null",
                     "else if this.key == search value",
                     "  return this",
                     "else if this.key < search value",
                     "  search right",
                     "else search left">>,
     insert |-> <<"if this == null",
                     "  create new node",
                     "else if value < this.key",
                     "  go left",
                     "else if value > this.key",
                     "  go right">>,
     remove |-> <<"if this == null",
                     "  return (not found)",
                     "else if value < this.key",
                     "  go left",
                     "else if value > this.key",
                     "  go right",
                     "else // found the node",
                     "  if leaf node: remove it",
                     "  if one child: bypass",
                     "  if two children:",
                     "    replace with successor",
                     "    remove successor from right">>,
     create |-> <<"if this == null",
                     "  create new node",
                     "else if value < this.key",
                     "  go left",
                     "else if value > this.key",
                     "  go right">>,
     inorder |-> <<"if node == null",
                      "  return",
                      "inorder(node.left)",
                      "visit node",
                      "inorder(node.right)">>,
     preorder |-> <<"if node == null",
                       "  return",
                       "visit node",
                       "preorder(node.left)",
                       "preorder(node.right)">>,
     postorder |-> <<"if node == null",
                        "  return",
                        "postorder(node.left)",
                        "postorder(node.right)",
                        "visit node">>,
     predecessor |-> <<"predecessor = null",
                          "while node != null",
                          "  if value <= node.key",
                          "    go left",
                          "  else",
                          "    predecessor = node",
                          "    go right",
                          "return predecessor">>,
     successor |-> <<"successor = null",
                        "while node != null",
                        "  if value >= node.key",
                        "    go right",
                        "  else",
                        "    successor = node",
                        "    go left",
                        "return successor">>,
     selectKth |-> <<"count = 0, result = null",
                        "inorder(node.left)",
                        "count++",
                        "if count == k",
                        "  result = node.key",
                        "inorder(node.right)",
                        "return result">>]

\* getPseudocode answering every kind with the lines of insert
getPseudocodeOfInsert(op) == PSEUDOCODE.insert

\* PSEUDOCODE[op] ?? { title: op, lines: [] }, its lines
getPseudocode(op) == IF op \in DOMAIN PSEUDOCODE THEN PSEUDOCODE[op] ELSE <<>>

\* Every operation of the core and createRandomTree, called in any order; the
\* random values drawn are those the other operations take as arguments.
NextKinds ==
    \/ Next
    \/ \E size \in 0 .. CreateMaxDraws :
           \E ds \in {d \in Draws : \A i \in DOMAIN d : d[i] < MaxVal} : Create(size, ds)

SpecKinds == Init /\ [][NextKinds]_vars

\* ------------------------------------------------------------------ the playback controller

\* ms per step at 1x speed
baseDelay == 600

\* The speed multipliers 0.5, 1, 2, 4 of the control bar, counted in halves.
SPEED_OPTIONS == {1, 2, 4, 8}

\* baseDelay / speed, with speed counted in halves
delayOf(s) == (baseDelay * 2) \div s

\* A step list of n steps; step i stands for the i-th AnimationStep object.
StepList(n) == [i \in 1 .. n |-> i]

\* A call of callbacks.onStep(step) or callbacks.onComplete().
Ev(cb, step) == [cb |-> cb, step |-> step]

\* The identifier setTimeout returns: one that names no other timer, pending or held.
FreshId(ts, tid) ==
    CHOOSE i \in 1 .. (Cardinality(ts) + 2) : i \notin ({t.id : t \in ts} \cup {tid})

\* stop() without its clearTimeout: the pending timers stay.
stoppedNothing == timers

\* stop(): clearTimeout(timerId) takes the timer named timerId off the pending timers.
stopped == {t \in timers : t.id # timerId}

\* emitCurrent() on the step list ss with the cursor at i: the callbacks it makes,
\* onStep(ss[i]) when i is an index of the list.
\* emitCurrent() without its range test: onStep(steps[index]) with whatever
\* steps[index] is, undefined (None) outside the list
emitAtUnguarded(ss, i) ==
    <<Ev("onStep", IF i >= 0 /\ i < Len(ss) THEN ss[i + 1] ELSE None)>>

emitAt(ss, i) ==
    IF i >= 0 /\ i < Len(ss) THEN <<Ev("onStep", ss[i + 1])>> ELSE <<>>

emitCurrent(i) == emitAt(steps, i)

\* if (index >= steps.length), one step early
tickDoneEarly(i, n) == i >= n - 1

\* if (index >= steps.length)
tickDone(i, n) == i >= n

\* The callbacks of tick() on the step list ss with the cursor at i.
tickCallbacksOf(ss, i) ==
    IF tickDone(i, Len(ss)) THEN <<Ev("onComplete", None)>> ELSE emitAt(ss, i)

\* tick() on the step list ss with the cursor at i, the pending timers ts and the
\* held identifier tid: the cursor and the timers it leaves.
tickOf(ss, i, ts, tid) ==
    IF tickDone(i, Len(ss)) THEN
        /\ index' = i
        /\ timers' = ts
        /\ timerId' = tid
    ELSE
        /\ index' = i + 1
        /\ timers' = ts \cup {[id |-> FreshId(ts, tid), delay |-> delayOf(speed)]}
        /\ timerId' = FreshId(ts, tid)

tick(ts, tid) == tickOf(steps, index, ts, tid)

\* The controller's methods: what each does to the cursor and the timers, and
\* the callbacks it makes.
play == tick(stopped, NULL)

pause ==
    /\ timers' = stopped
    /\ timerId' = NULL
    /\ index' = index

stepForward ==
    /\ timers' = stopped
    /\ timerId' = NULL
    /\ index' = IF index < Len(steps) THEN index + 1 ELSE index

stepForwardCallbacks ==
    (IF index < Len(steps) THEN emitCurrent(index) ELSE <<>>)
        \o (IF (IF index < Len(steps) THEN index + 1 ELSE index) >= Len(steps)
            THEN <<Ev("onComplete", None)>> ELSE <<>>)

stepBackward ==
    /\ timers' = stopped
    /\ timerId' = NULL
    /\ index' = IF index > 0 THEN index - 1 ELSE index

stepBackwardCallbacks == IF index > 0 THEN emitCurrent(index - 1) ELSE <<>>

goToStart ==
    /\ timers' = stopped
    /\ timerId' = NULL
    /\ index' = 0

goToStartCallbacks == emitCurrent(0)

\* goToEnd() without its closing index = steps.length
goToEndOnLast == Len(steps) - 1

\* index = steps.length, the cursor goToEnd() leaves
goToEndCursor == Len(steps)

goToEnd ==
    /\ timers' = stopped
    /\ timerId' = NULL
    /\ index' = goToEndCursor

goToEndCallbacks == emitCurrent(Len(steps) - 1)

\* destroy() without its call of stop()
destroyKeepsTimers == timers

\* destroy() is stop(): the pending timers it leaves
destroyTimers == stopped

destroy ==
    /\ timers' = destroyTimers
    /\ timerId' = NULL
    /\ index' = index

\* A control call is recorded in calls, and the callbacks it makes in events; at
\* most MaxCalls are made.
Called(name) ==
    /\ Len(calls) < MaxCalls
    /\ calls' = Append(calls, name)

Play ==
    /\ Called("play")
    /\ play
    /\ events' = events \o tickCallbacksOf(steps, index)
    /\ UNCHANGED <<steps, speed, coreVars, appVars>>

\* A pending timer fires and runs tick.
Tick ==
    /\ \E t \in timers : tick(timers \ {t}, timerId)
    /\ events' = events \o tickCallbacksOf(steps, index)
    /\ UNCHANGED <<steps, speed, calls, coreVars, appVars>>

Pause ==
    /\ Called("pause")
    /\ pause
    /\ UNCHANGED <<steps, speed, events, coreVars, appVars>>

StepForward ==
    /\ Called("stepForward")
    /\ stepForward
    /\ events' = events \o stepForwardCallbacks
    /\ UNCHANGED <<steps, speed, coreVars, appVars>>

StepBackward ==
    /\ Called("stepBackward")
    /\ stepBackward
    /\ events' = events \o stepBackwardCallbacks
    /\ UNCHANGED <<steps, speed, coreVars, appVars>>

GoToStart ==
    /\ Called("goToStart")
    /\ goToStart
    /\ events' = events \o goToStartCallbacks
    /\ UNCHANGED <<steps, speed, coreVars, appVars>>

GoToEnd ==
    /\ Called("goToEnd")
    /\ goToEnd
    /\ events' = events \o goToEndCallbacks
    /\ UNCHANGED <<steps, speed, coreVars, appVars>>

SetSpeed(s) ==
    /\ speed' = s
    /\ UNCHANGED <<steps, index, timerId, timers, events, calls, coreVars, appVars>>

Destroy ==
    /\ Called("destroy")
    /\ destroy
    /\ UNCHANGED <<steps, speed, events, coreVars, appVars>>

\* createPlayback(steps, callbacks) on a step list of at most MaxSteps steps.
InitPlayback ==
    /\ heap = <<>>
    /\ tree = NULL
    /\ last = NoCall
    /\ steps \in {StepList(n) : n \in 0 .. MaxSteps}
    /\ index = 0
    /\ timerId = NULL
    /\ timers = {}
    /\ speed = 2
    /\ events = <<>>
    /\ calls = <<>>
    /\ InitAppVars

NextPlayback ==
    \/ Play
    \/ Tick
    \/ Pause
    \/ StepForward
    \/ StepBackward
    \/ GoToStart
    \/ GoToEnd
    \/ \E s \in SPEED_OPTIONS : SetSpeed(s)
    \/ Destroy

SpecPlayback == InitPlayback /\ [][NextPlayback]_vars

\* The callbacks of a run played from the start to the end: every step in index
\* order, then the completion.
FullRun ==
    [i \in 1 .. Len(steps) + 1 |->
        IF i <= Len(steps) THEN Ev("onStep", steps[i]) ELSE Ev("onComplete", None)]

\* ------------------------------------------------------------------ the application

\* The application is explored from the empty tree, with node values and value
\* arguments in 0..AppMaxVal and trees of at most AppMaxNodes nodes.
AppMaxVal == 1

AppMaxNodes == 2

\* The speed select is explored between 1x and 2x.
AppSpeeds == {2, 4}

\* The state the callbacks of a controller write: the tree on the canvas and
\* the two flags.
appState(t, a, p) == [tree |-> t, animating |-> a, isPlaying |-> p]

\* onStep(step) and onComplete() as runAnimation passes them to createPlayback,
\* with fin the final tree of the animation.
callback(a, e, fin) ==
    IF e.cb = "onStep" THEN
        [a EXCEPT !.tree = IF e.step.tree # NULL THEN e.step.tree ELSE @]
    ELSE
        [a EXCEPT !.isPlaying = FALSE, !.animating = FALSE, !.tree = fin]

\* The callbacks cbs, delivered in order.
RECURSIVE delivered(_, _, _)
delivered(a, cbs, fin) ==
    IF cbs = <<>> THEN a ELSE delivered(callback(a, Head(cbs), fin), Tail(cbs), fin)

Rendered(a) ==
    /\ tree' = a.tree
    /\ animating' = a.animating
    /\ isPlaying' = a.isPlaying

\* A handler of the control bar: the callbacks cbs of the controller's method,
\* then the handler's own setIsPlaying(playing).
handled(cbs, playing) ==
    /\ Rendered([delivered(appState(tree, animating, isPlaying), cbs, finalTree)
                    EXCEPT !.isPlaying = playing])
    /\ UNCHANGED <<heap, last, steps, speed, events, calls,
                   totalSteps, finalTree, retired, cancelled>>

\* disabled={!animating && totalSteps === 0}, negated
ControlsEnabled == animating \/ totalSteps > 0

\* The play button is drawn while isPlaying is false, the pause button while it
\* is true.
HandlePlay ==
    /\ ControlsEnabled
    /\ ~isPlaying
    /\ play
    /\ handled(tickCallbacksOf(steps, index), TRUE)

HandlePause ==
    /\ ControlsEnabled
    /\ isPlaying
    /\ pause
    /\ handled(<<>>, FALSE)

HandleStepForward ==
    /\ ControlsEnabled
    /\ stepForward
    /\ handled(stepForwardCallbacks, FALSE)

HandleStepBackward ==
    /\ ControlsEnabled
    /\ stepBackward
    /\ handled(stepBackwardCallbacks, FALSE)

HandleGoToStart ==
    /\ ControlsEnabled
    /\ goToStart
    /\ handled(goToStartCallbacks, FALSE)

HandleGoToEnd ==
    /\ ControlsEnabled
    /\ goToEnd
    /\ handled(goToEndCallbacks, FALSE)

\* The speed select changes to s: setSpeed(s) on the state and on the controller.
HandleSpeedChange(s) ==
    /\ ControlsEnabled
    /\ s # speed
    /\ speed' = s
    /\ UNCHANGED <<steps, index, timerId, timers, events, calls, coreVars, appVars>>

\* A pending timer of the current controller fires and runs tick.
AppTick ==
    /\ \E t \in timers : tick(timers \ {t}, timerId)
    /\ Rendered(delivered(appState(tree, animating, isPlaying), tickCallbacksOf(steps, index), finalTree))
    /\ UNCHANGED <<heap, last, steps, speed, events, calls,
                   totalSteps, finalTree, retired, cancelled>>

\* runAnimation without its playbackRef.current?.destroy()
previousKept == timers

\* playbackRef.current?.destroy(): the timers of the previous controller that
\* stay pending
previousTimers == destroyTimers

\* runAnimation(r.steps, fin) after the operation returned r on the tree g.
runAnimation(g, r, fin, call) ==
    /\ heap' = r.heap
    /\ last' = call
    /\ cancelled' = timers \ previousTimers
    /\ IF Len(r.steps) = 0 THEN
           /\ tree' = fin
           /\ timers' = previousTimers
           /\ timerId' = NULL
           /\ UNCHANGED <<steps, index, animating, isPlaying, totalSteps, finalTree, retired>>
       ELSE
           /\ retired' = retired \cup previousTimers
           /\ steps' = r.steps
           /\ finalTree' = fin
           /\ totalSteps' = Len(r.steps)
           /\ tickOf(r.steps, 0, {}, NULL)
           /\ Rendered(delivered(appState(g.ref, TRUE, TRUE), tickCallbacksOf(r.steps, 0), fin))
    /\ UNCHANGED <<speed, events, calls>>

\* The operation returned r on the tree g: the animation of its steps ends on
\* the root it returned, or on the tree it ran on when it returns none.
animated(op, arg, g, r) ==
    runAnimation(g, r, IF "root" \in DOMAIN r THEN r.root ELSE g.ref,
                 callRecord(op, arg, g, r))

\* The operation named op, run on the tree on the canvas and animated.
Launch(op, arg, g) == animated(op, arg, g, operation(op, arg, g.heap, g.ref))

\* The sidebar is disabled while animating; an operation with an input is
\* chosen there and submitted in the modal.
SubmitInsert(v) ==
    /\ ~animating
    /\ countNodes(heap, tree) < AppMaxNodes
    /\ Launch("insert", v, Collect(heap, tree))

SubmitRemove(v) == ~animating /\ Launch("remove", v, Collect(heap, tree))

SubmitSearch(v) == ~animating /\ Launch("search", v, Collect(heap, tree))

SubmitPredecessor(v) == ~animating /\ Launch("predecessor", v, Collect(heap, tree))

SubmitSuccessor(v) == ~animating /\ Launch("successor", v, Collect(heap, tree))

SubmitSelectKth(k) == ~animating /\ Launch("selectKth", k, Collect(heap, tree))

OperationInorder == ~animating /\ Launch("inorder", None, Collect(heap, tree))

OperationPreorder == ~animating /\ Launch("preorder", None, Collect(heap, tree))

OperationPostorder == ~animating /\ Launch("postorder", None, Collect(heap, tree))

NextApp ==
    \/ \E v \in 0 .. AppMaxVal : SubmitInsert(v)
    \/ \E v \in 0 .. AppMaxVal : SubmitRemove(v)
    \/ \E v \in 0 .. AppMaxVal : SubmitSearch(v)
    \/ \E v \in 0 .. AppMaxVal : SubmitPredecessor(v)
    \/ \E v \in 0 .. AppMaxVal : SubmitSuccessor(v)
    \/ \E k \in 0 .. (AppMaxVal + 1) : SubmitSelectKth(k)
    \/ OperationInorder
    \/ OperationPreorder
    \/ OperationPostorder
    \/ HandlePlay
    \/ HandlePause
    \/ HandleStepForward
    \/ HandleStepBackward
    \/ HandleGoToStart
    \/ HandleGoToEnd
    \/ \E s \in AppSpeeds : HandleSpeedChange(s)
    \/ AppTick

SpecApp == Init /\ [][NextApp]_vars

\* ------------------------------------------------------------------ reading a call's record

\* The node values of the 'Visit' steps of a traversal's step list, in step order.
IsVisitStep(s) ==
    s.description.text \in {"Visit (in-order)", "Visit (pre-order)", "Visit (post-order)"}

VisitValues(ss) ==
    [i \in 1 .. Len(SelectSeq(ss, IsVisitStep)) |-> SelectSeq(ss, IsVisitStep)[i].activeNode]

\* The number of nodes of a tree value that hold x.
RECURSIVE Occurrences(_, _)
Occurrences(t, x) ==
    IF t = <<>> THEN 0
    ELSE (IF t[1] = x THEN 1 ELSE 0) + Occurrences(t[2], x) + Occurrences(t[3], x)

\* The number of elements of a sequence equal to x.
Times(q, x) == Cardinality({i \in 1 .. Len(q) : q[i] = x})

\* The position of x in a sequence that holds it once.
Pos(q, x) == CHOOSE i \in 1 .. Len(q) : q[i] = x

\* No value occurs in two nodes.
Distinct(t) == Size(t) = Cardinality(Vals(t))

Max(S) == CHOOSE x \in S : \A y \in S : y <= x

Min(S) == CHOOSE x \in S : \A y \in S : x <= y

\* A step with its tree snapshot as a value.
StepView(h, s) == [s EXCEPT !.tree = TreeOf(h, s.tree)]

StepViews(h, ss) == [i \in 1 .. Len(ss) |-> StepView(h, ss[i])]

\* The step lists of insertNode(T0, values[i]), insertNode(T1, values[i+1]), ...
\* where T0 is the tree t and each call runs on the root the one before returned,
\* concatenated.
RECURSIVE InsertRuns(_, _, _)
InsertRunsAfter(r, values, i) ==
    StepViews(r.heap, r.steps) \o InsertRuns(TreeOf(r.heap, r.root), values, i + 1)

InsertRunsOn(g, values, i) == InsertRunsAfter(insertNode(g.heap, g.ref, values[i]), values, i)

InsertRuns(t, values, i) ==
    IF i > Len(values) THEN <<>> ELSE InsertRunsOn(Alloc(<<>>, t), values, i)

\* The values a step highlights, and those it highlights as type.
HighlightKeys(s) == {s.highlightNodes[i][1] : i \in 1 .. Len(s.highlightNodes)}

KeysOfType(s, type) ==
    {s.highlightNodes[i][1] : i \in {n \in 1 .. Len(s.highlightNodes) : s.highlightNodes[n][2] = type}}

\* The edges a step highlights.
HighlightEdgeSet(s) == {s.highlightEdges[i] : i \in 1 .. Len(s.highlightEdges)}

\* The parent-to-child links of a tree, as pairs of values.
RECURSIVE Links(_)
Links(t) ==
    IF t = <<>> THEN {}
    ELSE (IF t[2] # <<>> THEN {<<t[1], t[2][1]>>} ELSE {})
         \cup (IF t[3] # <<>> THEN {<<t[1], t[3][1]>>} ELSE {})
         \cup Links(t[2]) \cup Links(t[3])

\* Every highlighted value of the step s is a value of the tree t and every
\* highlighted edge a link of t.
HighlightsWithin(s, t) ==
    /\ HighlightKeys(s) \subseteq Vals(t)
    /\ HighlightEdgeSet(s) \subseteq Links(t)

\* The steps of removeNode that tell the removed node is leaving the tree.
RemovalTexts == {"is a leaf, remove it", "has one child, replace", "Replace"}

\* The values on the path from the root of the BST t to its node that holds v.
RECURSIVE PathTo(_, _)
PathTo(t, v) ==
    IF t = <<>> THEN <<>>
    ELSE IF v < t[1] THEN <<t[1]>> \o PathTo(t[2], v)
    ELSE IF v > t[1] THEN <<t[1]>> \o PathTo(t[3], v)
    ELSE <<t[1]>>

\* The edges of a path of values.
PathEdges(p) == {<<p[i], p[i + 1]>> : i \in 1 .. Len(p) - 1}

\* The last step of the last call.
LastStep == last.steps[Len(last.steps)]

\* The BST t without its leaf that holds v; t itself when v is not held by a leaf.
RECURSIVE DropLeaf(_, _)
DropLeaf(t, v) ==
    IF t = <<>> THEN <<>>
    ELSE IF v < t[1] THEN <<t[1], DropLeaf(t[2], v), t[3]>>
    ELSE IF v > t[1] THEN <<t[1], t[2], DropLeaf(t[3], v)>>
    ELSE IF t[2] = <<>> /\ t[3] = <<>> THEN <<>>
    ELSE t

\* The BST t with its node that holds v replaced by that node's only child
\* subtree, or by nothing when it is a leaf; t itself when the node has two
\* children or v is not held.
RECURSIVE Spliced(_, _)
Spliced(t, v) ==
    IF t = <<>> THEN <<>>
    ELSE IF v < t[1] THEN <<t[1], Spliced(t[2], v), t[3]>>
    ELSE IF v > t[1] THEN <<t[1], t[2], Spliced(t[3], v)>>
    ELSE IF t[2] = <<>> THEN t[3]
    ELSE IF t[3] = <<>> THEN t[2]
    ELSE t

\* The edges of a path of values, in path order.
PathChain(p) == [i \in 1 .. Len(p) - 1 |-> <<p[i], p[i + 1]>>]

\* The operations that return no root.
ReadOnlyOps ==
    {"search", "predecessor", "successor", "selectKth", "inorder", "preorder", "postorder"}

\* The node objects reachable from a reference.
RECURSIVE Reach(_, _)
Reach(h, node) ==
    IF node = NULL THEN {} ELSE {node} \cup Reach(h, h[node].left) \cup Reach(h, h[node].right)

\* The node objects of the last call's input tree, of the working copy that
\* insertNode and removeNode clone from it before anything else, and of the
\* returned root: the objects an operation reads or writes.
OperationNodes ==
    Reach(heap, last.T) \cup Reach(heap, last.root)
        \cup (IF last.op \in {"insert", "remove"}
              THEN (Size(last.before) + 1) .. (2 * Size(last.before)) ELSE {})

\* The tree a positioned tree draws: its values and shape.
RECURSIVE Drawn(_)
Drawn(p) == IF p = <<>> THEN <<>> ELSE <<p[1], Drawn(p[4]), Drawn(p[5])>>

\* The x coordinates of a positioned tree, in in-order sequence.
RECURSIVE InorderXs(_)
InorderXs(p) == IF p = <<>> THEN <<>> ELSE InorderXs(p[4]) \o <<p[2]>> \o InorderXs(p[5])

\* a < b for two fractions with positive denominators
Less(a, b) == a[1] * b[2] < b[1] * a[2]

\* The tree t placed by the claim's rule: the subtree's first in-order rank is
\* first, its root's depth is depth; a node of rank k is k gaps right of
\* PADDING_X and a node of depth d is d levels below PADDING_TOP.
RECURSIVE Placed(_, _, _, _)
Placed(t, first, depth, gap) ==
    IF t = <<>> THEN <<>>
    ELSE <<t[1],
           <<PADDING_X * gap[2] + (first + Size(t[2])) * gap[1], gap[2]>>,
           PADDING_TOP + depth * LEVEL_GAP,
           Placed(t[2], first, depth + 1, gap),
           Placed(t[3], first + Size(t[2]) + 1, depth + 1, gap)>>

\* ------------------------------------------------------------------ claims

\* C1: after any sequence of insertNode and removeNode calls from the empty tree,
\* the tree satisfies the strict BST invariant.
C1_BstInvariant == IsBST(TreeOf(heap, tree))

\* C2: insertNode(T, v) and removeNode(T, v) leave every node reachable from the
\* caller's reference T unchanged: same values, same left and right links.
C2_CallerTreeUnchanged ==
    last.op \in {"insert", "remove"} =>
        /\ TreeOf(heap, last.T) = last.before
        /\ \A n \in 1 .. Len(Alloc(<<>>, last.before).heap) :
               heap[n] = Alloc(<<>>, last.before).heap[n]

\* C2 witness: a remove of a value held by a node with two children, on the
\* caller's tree of three or more nodes, returned a different tree.
C2_Witness ==
    /\ last.op = "remove"
    /\ Size(last.before) >= 3
    /\ \E s \in Subtrees(last.before) : s[1] = last.arg /\ s[2] # <<>> /\ s[3] # <<>>
    /\ TreeOf(heap, last.root) # last.before

\* C3: on a BST T, searchNode(T, v).found is true iff v is a value of some node of T.
C3_SearchFound ==
    (last.op = "search" /\ IsBST(last.before)) =>
        (last.found <=> last.arg \in Vals(last.before))

\* C3 witness: a search found a value below the root of a BST.
C3_Witness ==
    /\ last.op = "search"
    /\ IsBST(last.before)
    /\ last.found
    /\ last.before[1] # last.arg

\* C4: on a BST T, countNodes(removeNode(T, v).root) is countNodes(T) - 1 when v
\* is present in T and countNodes(T) when v is absent.
C4_RemoveCount ==
    (last.op = "remove" /\ IsBST(last.before)) =>
        countNodes(heap, last.root) =
            Size(last.before) - (IF last.arg \in Vals(last.before) THEN 1 ELSE 0)

\* C5: on a BST T, findPredecessor(T, v).result is the largest value of T strictly
\* less than v, or null when T has none.
C5_Predecessor ==
    (last.op = "predecessor" /\ IsBST(last.before)) =>
        last.result = (IF {x \in Vals(last.before) : x < last.arg} = {} THEN None
                       ELSE Max({x \in Vals(last.before) : x < last.arg}))

\* C5 witness: a predecessor was found for a value that is a node of the BST.
C5_Witness ==
    /\ last.op = "predecessor"
    /\ IsBST(last.before)
    /\ last.arg \in Vals(last.before)
    /\ last.result # None

\* C6: on a BST T, findSuccessor(T, v).result is the smallest value of T strictly
\* greater than v, or null when T has none.
C6_Successor ==
    (last.op = "successor" /\ IsBST(last.before)) =>
        last.result = (IF {x \in Vals(last.before) : x > last.arg} = {} THEN None
                       ELSE Min({x \in Vals(last.before) : x > last.arg}))

\* C6 witness: a successor was found for a value that is a node of the BST.
C6_Witness ==
    /\ last.op = "successor"
    /\ IsBST(last.before)
    /\ last.arg \in Vals(last.before)
    /\ last.result # None

\* C7: on a BST T, selectKth(T, k).result is the k-th smallest value of T when
\* 1 <= k <= countNodes(T) and null for every other k.
C7_SelectKth ==
    (last.op = "selectKth" /\ IsBST(last.before)) =>
        last.result = (IF 1 <= last.arg /\ last.arg <= Size(last.before)
                       THEN Ascending(Vals(last.before))[last.arg]
                       ELSE None)

\* C7 witness: selectKth returned a value of rank 2 or more that is not the root's.
C7_Witness ==
    /\ last.op = "selectKth"
    /\ IsBST(last.before)
    /\ last.arg >= 2
    /\ last.result # None
    /\ last.result # last.before[1]

\* C8: on a BST T, the values of the 'Visit' steps of inorderTraversal(T), in step
\* order, are the values of T in ascending order, each once.
C8_InorderAscending ==
    (last.op = "inorder" /\ IsBST(last.before)) =>
        VisitValues(last.steps) = Ascending(Vals(last.before))

\* C8 witness: an in-order traversal of a BST whose root has two children.
C8_Witness ==
    /\ last.op = "inorder"
    /\ IsBST(last.before)
    /\ last.before # <<>>
    /\ last.before[2] # <<>>
    /\ last.before[3] # <<>>

\* C9: preorderTraversal visits every node once and before every node of its
\* subtrees; postorderTraversal visits every node once and after every node of its
\* subtrees.  Nodes are told apart by value where the tree holds no value twice.
C9_PrePostOrder ==
    last.op \in {"preorder", "postorder"} =>
        /\ Len(VisitValues(last.steps)) = Size(last.before)
        /\ \A x \in Values : Times(VisitValues(last.steps), x) = Occurrences(last.before, x)
        /\ Distinct(last.before) =>
               \A s \in Subtrees(last.before) : \A m \in Vals(s[2]) \cup Vals(s[3]) :
                   IF last.op = "preorder"
                   THEN Pos(VisitValues(last.steps), s[1]) < Pos(VisitValues(last.steps), m)
                   ELSE Pos(VisitValues(last.steps), s[1]) > Pos(VisitValues(last.steps), m)

\* C9 witness: a post-order traversal of a tree whose root has two children.
C9_Witness ==
    /\ last.op = "postorder"
    /\ Distinct(last.before)
    /\ last.before # <<>>
    /\ last.before[2] # <<>>
    /\ last.before[3] # <<>>

\* C10: after play() on a fresh controller, with no other control than setSpeed
\* invoked, the timer's ticks call onStep with steps[0], ..., steps[n-1] in that
\* order and then onComplete once; a tick stays scheduled until then and none after.
C10_PlayToEnd ==
    calls = <<"play">> =>
        /\ Len(events) <= Len(FullRun)
        /\ events = SubSeq(FullRun, 1, Len(events))
        /\ Cardinality(timers) <= 1
        /\ (timers = {}) <=> (events = FullRun)

\* C10 witness: a run of two or more steps played to its completion, with the
\* speed changed on the way.
C10_Witness ==
    /\ calls = <<"play">>
    /\ Len(steps) >= 2
    /\ speed # 2
    /\ timers = {}
    /\ events = FullRun

\* The control call a step makes, as calls records it.
CallOf(name) == calls' = Append(calls, name)

\* The latest control call was name.
LastCall(name) == calls # <<>> /\ calls[Len(calls)] = name

\* onComplete has been called.
Completed == \E i \in 1 .. Len(events) : events[i].cb = "onComplete"

\* C11: once the cursor is at the list length and onComplete has fired, a
\* stepForward() made with the cursor still at the end does not fire onComplete again.
C11_CompletesOnce ==
    [][(index = Len(steps) /\ Completed /\ CallOf("stepForward")) => events' = events]_vars

\* C12: stepForward() and stepBackward() cancel the pending timer, move the cursor
\* by +1 / -1 within the list boundaries and call onStep once, with the step at the
\* cursor's new position; stepForward() with the cursor at the end emits no step
\* and fires completion.
C12_StepAtNewPosition ==
    [][/\ CallOf("stepForward") =>
           /\ timers' = {}
           /\ IF index < Len(steps)
              THEN /\ index' = index + 1
                   /\ index' < Len(steps) =>
                          events' = Append(events, Ev("onStep", steps[index' + 1]))
              ELSE /\ index' = index
                   /\ events' = Append(events, Ev("onComplete", None))
       /\ CallOf("stepBackward") =>
           /\ timers' = {}
           /\ IF index > 0
              THEN /\ index' = index - 1
                   /\ events' = Append(events, Ev("onStep", steps[index' + 1]))
              ELSE index' = index]_vars

\* C13: pause() cancels the pending timer, leaves the cursor where it is and emits
\* no step; while pause() is the latest control call no callback is called and no
\* timer is pending.
C13_Pause ==
    [][/\ CallOf("pause") => (index' = index /\ events' = events /\ timers' = {})
       /\ (LastCall("pause") /\ calls' = calls) => (events' = events /\ timers' = {})]_vars

\* C13 witness: a run of two or more steps paused after its first step, its timer
\* cancelled.
C13_Witness ==
    /\ calls = <<"play", "pause">>
    /\ Len(steps) >= 2
    /\ index = 1
    /\ events = <<Ev("onStep", steps[1])>>
    /\ timers = {}

\* C14: on a non-empty list goToStart() cancels the timer, sets the cursor to 0
\* and emits steps[0]; goToEnd() cancels the timer, emits steps[n-1] and leaves the
\* cursor at n; a play() that follows goToEnd() fires completion at once, emits no
\* step and schedules no timer.
C14_GoToStartGoToEnd ==
    [][Len(steps) > 0 =>
           /\ CallOf("goToStart") =>
                  /\ timers' = {}
                  /\ index' = 0
                  /\ events' = Append(events, Ev("onStep", steps[1]))
           /\ CallOf("goToEnd") =>
                  /\ timers' = {}
                  /\ index' = Len(steps)
                  /\ events' = Append(events, Ev("onStep", steps[Len(steps)]))
           /\ (LastCall("goToEnd") /\ CallOf("play")) =>
                  /\ timers' = {}
                  /\ index' = index
                  /\ events' = Append(events, Ev("onComplete", None))]_vars

\* C14 witness: a run of three steps taken to its end while its timer was
\* pending, then played: the first step, the last step, the completion.
C14_Witness ==
    /\ calls = <<"play", "goToEnd", "play">>
    /\ Len(steps) = 3
    /\ index = 3
    /\ events = <<Ev("onStep", steps[1]), Ev("onStep", steps[3]), Ev("onComplete", None)>>
    /\ timers = {}

\* C15: destroy() cancels the pending timer, emits no step, fires no completion
\* and leaves the cursor; a destroy() that follows a destroy() changes nothing of
\* the controller; while destroy() is the latest control call no callback is
\* called and no timer is pending.
C15_Destroy ==
    [][/\ CallOf("destroy") =>
           (index' = index /\ events' = events /\ timers' = {} /\ timerId' = NULL)
       /\ (LastCall("destroy") /\ CallOf("destroy")) =>
           UNCHANGED <<steps, index, timerId, timers, speed, events>>
       /\ (LastCall("destroy") /\ calls' = calls) =>
           (events' = events /\ timers' = {})]_vars

\* C15 witness: a playing controller destroyed twice after its first step.
C15_Witness ==
    /\ calls = <<"play", "destroy", "destroy">>
    /\ Len(steps) >= 2
    /\ index = 1
    /\ events = <<Ev("onStep", steps[1])>>
    /\ timers = {}

\* C17: on a BST T that holds v, insertNode(T, v) returns a tree of the shape and
\* the values of T.
C17_DuplicateInsert ==
    (last.op = "insert" /\ IsBST(last.before) /\ last.arg \in Vals(last.before)) =>
        TreeOf(heap, last.root) = last.before

\* C17 witness: an insert of a value that a node below the root of a BST of three
\* nodes holds.
C17_Witness ==
    /\ last.op = "insert"
    /\ IsBST(last.before)
    /\ Size(last.before) = 3
    /\ last.arg \in Vals(last.before)
    /\ last.arg # last.before[1]
    /\ Len(last.steps) >= 3

\* The node of t that holds v has two children.
TwoChildrenAt(t, v) ==
    \E s \in Subtrees(t) : s[1] = v /\ s[2] # <<>> /\ s[3] # <<>>

\* The subtree found where the search for v in the BST t ends, in the tree r.
RECURSIVE SubtreeAt(_, _, _)
SubtreeAt(r, t, v) ==
    IF t = <<>> \/ r = <<>> THEN <<>>
    ELSE IF v < t[1] THEN SubtreeAt(r[2], t[2], v)
    ELSE IF v > t[1] THEN SubtreeAt(r[3], t[3], v)
    ELSE r

\* C18: on a BST T whose node holding v has two children, removeNode(T, v) returns
\* a tree where that node's position holds the minimum of its former right
\* subtree, the right subtree no longer holds that minimum, and the values are
\* those of T without v, none twice.
C18_RemoveTwoChildren ==
    (last.op = "remove" /\ IsBST(last.before) /\ TwoChildrenAt(last.before, last.arg)) =>
        /\ SubtreeAt(TreeOf(heap, last.root), last.before, last.arg) # <<>>
        /\ SubtreeAt(TreeOf(heap, last.root), last.before, last.arg)[1] =
               Min(Vals(SubtreeAt(last.before, last.before, last.arg)[3]))
        /\ SubtreeAt(TreeOf(heap, last.root), last.before, last.arg)[1] \notin
               Vals(SubtreeAt(TreeOf(heap, last.root), last.before, last.arg)[3])
        /\ Vals(TreeOf(heap, last.root)) = Vals(last.before) \ {last.arg}
        /\ Distinct(TreeOf(heap, last.root))

\* The description of the last step of the last call.
LastDescription == last.steps[Len(last.steps)].description

\* C20: every core operation returns a step list of one step or more whose last
\* step tells the outcome: found or not found, inserted, removal complete, the
\* predecessor or successor or none, the result or out of range, traversal complete.
C20_OutcomeSummary ==
    last.op # "none" =>
        /\ Len(last.steps) >= 1
        /\ last.op = "search" =>
               LastDescription = (IF last.found THEN D("is found", last.arg, None)
                                  ELSE D("not found in tree", last.arg, None))
        /\ last.op = "insert" =>
               LastDescription = (IF last.before = <<>> THEN D("Insert as root", last.arg, None)
                                  ELSE D("Inserted", last.arg, None))
        /\ last.op = "remove" => LastDescription = D("Removal complete", None, None)
        /\ last.op = "predecessor" =>
               LastDescription = (IF last.result # None
                                  THEN D("Predecessor is", last.arg, last.result)
                                  ELSE D("No predecessor for", last.arg, None))
        /\ last.op = "successor" =>
               LastDescription = (IF last.result # None
                                  THEN D("Successor is", last.arg, last.result)
                                  ELSE D("No successor for", last.arg, None))
        /\ last.op = "selectKth" =>
               LastDescription = (IF last.result # None THEN D("Result", last.result, None)
                                  ELSE D("is out of range", last.arg, None))
        /\ last.op = "inorder" => LastDescription = D("In-order traversal complete", None, None)
        /\ last.op = "preorder" => LastDescription = D("Pre-order traversal complete", None, None)
        /\ last.op = "postorder" =>
               LastDescription = D("Post-order traversal complete", None, None)

\* C20 witness: a remove of a value that a tree of two or more nodes does not
\* hold: the search fails and the step list still ends with the summary.
C20_Witness ==
    /\ last.op = "remove"
    /\ Size(last.before) >= 2
    /\ last.arg \notin Vals(last.before)
    /\ \E i \in 1 .. Len(last.steps) - 1 : last.steps[i].description.text = "not found"

\* C19: createDefaultTree() is a BST of 21 nodes and height 7 that holds the
\* values of the insertion order; on it findPredecessor(., 30).result is 25,
\* selectKth(., 1).result is 1 and inorderTraversal visits the 21 values in
\* ascending order.
C19_DefaultTree ==
    /\ IsBST(TreeOf(heap, tree))
    /\ countNodes(heap, tree) = 21
    /\ treeHeight(heap, tree) = 7
    /\ Vals(TreeOf(heap, tree)) = {insertOrder[i] : i \in 1 .. Len(insertOrder)}
    /\ (last.op = "predecessor" /\ last.arg = 30) => last.result = 25
    /\ (last.op = "selectKth" /\ last.arg = 1) => last.result = 1
    /\ last.op = "inorder" =>
           /\ Len(VisitValues(last.steps)) = 21
           /\ VisitValues(last.steps) =
                  Ascending({insertOrder[i] : i \in 1 .. Len(insertOrder)})

\* C19 witness: findPredecessor(., 30) was called on the default tree.
C19_Witness ==
    /\ last.op = "predecessor"
    /\ last.arg = 30
    /\ last.result = 25
    /\ last.before = TreeOf(createDefaultTree.heap, createDefaultTree.ref)

\* C16: a controller has at most one pending timer, and no timer of a controller
\* the application has replaced is left pending: runAnimation destroys the
\* previous controller before the new controller's first tick.
C16_OneController == Cardinality(timers) <= 1 /\ retired = {}

\* An operation was launched while the previous controller's timer was pending:
\* that timer was cleared, and the new controller's first timer is pending.
C16_Witness ==
    /\ cancelled # {}
    /\ timers # {}
    /\ index = 1
    /\ retired = {}


\* C21: createRandomTree(size) returns a BST of exactly size nodes whose values
\* are pairwise distinct integers in 1..99; its step list is the step lists of
\* the successive insertNode calls, concatenated in insertion order, and then
\* one summary step, the only one of the list.
C21_CreateRandomTree ==
    last.op = "create" =>
        /\ IsBST(TreeOf(heap, last.root))
        /\ Size(TreeOf(heap, last.root)) = last.arg
        /\ Distinct(TreeOf(heap, last.root))
        /\ Vals(TreeOf(heap, last.root)) \subseteq 1 .. 99
        /\ StepViews(heap, last.steps) =
               Append(InsertRuns(<<>>, last.values, 1),
                      [tree |-> TreeOf(heap, last.root),
                       description |-> D("Created BST with nodes", last.arg, None),
                       highlightNodes |-> <<>>, highlightEdges |-> <<>>,
                       codeLine |-> None, activeNode |-> None])
        /\ \A i \in 1 .. Len(last.steps) - 1 :
               last.steps[i].description.text # "Created BST with nodes"

\* C21 witness: a tree of two nodes created from three draws, the second value
\* drawn twice and inserted once as the left child of the first.
C21_Witness ==
    /\ last.op = "create"
    /\ last.arg = 2
    /\ Len(last.draws) = 3
    /\ TreeOf(heap, last.root) # <<>>
    /\ TreeOf(heap, last.root)[2] # <<>>
    /\ Len(last.steps) = 5


\* C22: once selectKth has matched the k-th node it stops: the 'k-th smallest is'
\* step is followed by the final 'Result' step only, so no 'Visit (count=N)' step
\* comes after it, and the final step carries the highlighted edges of the
\* 'k-th smallest is' step, none added.
C22_SelectStops ==
    last.op = "selectKth" =>
        \A i \in 1 .. Len(last.steps) :
            last.steps[i].description.text = "k-th smallest is" =>
                /\ i + 1 = Len(last.steps)
                /\ last.steps[i + 1].description.text = "Result"
                /\ last.steps[i + 1].highlightEdges = last.steps[i].highlightEdges


\* C23: while a playback's steps are still draining (the cursor below the list
\* length, completion fired neither before nor by the step taken), no step of
\* the application, a step emission included, changes the current tree: it
\* holds the same values in the same shape after the step as before.
C23_TreeStableWhileDraining ==
    [][(animating /\ animating' /\ index < Len(steps)) =>
           TreeOf(heap', tree') = TreeOf(heap, tree)]_vars


\* C24: whenever the sidebar is enabled after an operation has run (animating is
\* false), the application's current tree is the final tree of the most recent
\* operation, values and shape, whatever playback controls were used since.
C24_SidebarOnLatestTree ==
    (~animating /\ last.op # "none") => TreeOf(heap, tree) = TreeOf(heap, last.root)


\* C25: when the latest callback is the emission of steps[i], i > 0 (here the
\* j-th step of the list, j >= 2), made by a timer tick or by stepForward(), a
\* stepBackward() emits steps[i-1], the step before it.
C25_StepBackwardPrecedes ==
    [][\A j \in 2 .. Len(steps) :
           (/\ CallOf("stepBackward")
            /\ LastCall("play") \/ LastCall("stepForward")
            /\ events # <<>>
            /\ events[Len(events)] = Ev("onStep", steps[j])) =>
               events' = Append(events, Ev("onStep", steps[j - 1]))]_vars


\* C26 as stated: in each of the three traversals every node and every edge
\* highlighted in a step is still highlighted in every later step of the list.
C26_HighlightsNeverShrink ==
    last.op \in {"inorder", "preorder", "postorder"} =>
        \A i \in 1 .. Len(last.steps) : \A j \in i .. Len(last.steps) :
            /\ HighlightKeys(last.steps[i]) \subseteq HighlightKeys(last.steps[j])
            /\ HighlightEdgeSet(last.steps[i]) \subseteq HighlightEdgeSet(last.steps[j])

\* C26: in each of the three traversals the visited nodes and the visited edges
\* are cumulative: every edge highlighted in a step, and every node highlighted
\* as 'found' in a step, is still highlighted in every later step of the list.
C26_VisitedCumulative ==
    last.op \in {"inorder", "preorder", "postorder"} =>
        \A i \in 1 .. Len(last.steps) : \A j \in i .. Len(last.steps) :
            /\ KeysOfType(last.steps[i], "found") \subseteq HighlightKeys(last.steps[j])
            /\ HighlightEdgeSet(last.steps[i]) \subseteq HighlightEdgeSet(last.steps[j])

\* C26 witness: an in-order traversal of a tree whose root has a left child: the
\* root is highlighted as current in the first step and in no step of the left
\* subtree's walk, and the nodes visited stay highlighted to the last step.
C26_Witness ==
    /\ last.op = "inorder"
    /\ Distinct(last.before)
    /\ Size(last.before) >= 2
    /\ last.before[2] # <<>>
    /\ last.before[1] \in HighlightKeys(last.steps[1])
    /\ last.before[1] \notin HighlightKeys(last.steps[2])
    /\ HighlightKeys(last.steps[Len(last.steps)]) = Vals(last.before)


\* C27: every tree snapshot of a step of insertNode or removeNode called on a BST
\* satisfies the strict BST invariant, so holds no value twice.
C27_SnapshotsAreBSTs ==
    (last.op \in {"insert", "remove"} /\ IsBST(last.before)) =>
        \A i \in 1 .. Len(last.steps) : IsBST(TreeOf(heap, last.steps[i].tree))


\* C28 as stated: in every step of every core operation, every key of
\* highlightNodes is a value of the step's tree snapshot and every pair of
\* highlightEdges is a parent-to-child link of that snapshot.
C28_HighlightsInSnapshot ==
    last.op # "none" =>
        \A i \in 1 .. Len(last.steps) :
            HighlightsWithin(last.steps[i], TreeOf(heap, last.steps[i].tree))

\* C28: the same, for every step of every core operation but the steps of
\* removeNode that come after the step telling the removal ('is a leaf, remove
\* it', 'has one child, replace', 'Replace ... with ...').
C28_HighlightsInSnapshotUntilRemoval ==
    last.op # "none" =>
        \A i \in 1 .. Len(last.steps) :
            (last.op = "remove" =>
                 \A j \in 1 .. i - 1 : last.steps[j].description.text \notin RemovalTexts) =>
                HighlightsWithin(last.steps[i], TreeOf(heap, last.steps[i].tree))

\* C28 witness: the removal of a leaf below the root: the closing step still
\* highlights the removed value and the edge to it, the steps before it
\* highlight values and links of their snapshots only.
C28_Witness ==
    /\ last.op = "remove"
    /\ Size(last.before) >= 2
    /\ last.arg # last.before[1]
    /\ last.arg \in HighlightKeys(last.steps[Len(last.steps)])
    /\ last.arg \notin Vals(TreeOf(heap, last.steps[Len(last.steps)].tree))
    /\ last.steps[Len(last.steps)].highlightEdges # <<>>
    /\ \A i \in 1 .. Len(last.steps) - 1 :
           HighlightsWithin(last.steps[i], TreeOf(heap, last.steps[i].tree))


\* C29: for a non-empty BST T and a value v not in T, the closing step of
\* insertNode(T, v) marks v as 'inserting', highlights every node of the path
\* from the root to the new leaf and every edge of that path, the edge from the
\* new leaf's parent to the new leaf included.
C29_InsertClosingPath ==
    (/\ last.op = "insert"
     /\ IsBST(last.before)
     /\ last.before # <<>>
     /\ last.arg \notin Vals(last.before)) =>
        /\ last.arg \in KeysOfType(LastStep, "inserting")
        /\ HighlightKeys(LastStep) =
               {PathTo(TreeOf(heap, last.root), last.arg)[i] :
                    i \in 1 .. Len(PathTo(TreeOf(heap, last.root), last.arg))}
        /\ HighlightEdgeSet(LastStep) = PathEdges(PathTo(TreeOf(heap, last.root), last.arg))


\* C30: for every BST T and value v not in T, insertNode(T, v) returns a tree
\* whose values are those of T and v, in which v is a leaf, and which is T once
\* that leaf is deleted: every node of T keeps its parent and its side.
C30_InsertAddsLeaf ==
    (last.op = "insert" /\ IsBST(last.before) /\ last.arg \notin Vals(last.before)) =>
        /\ Vals(TreeOf(heap, last.root)) = Vals(last.before) \cup {last.arg}
        /\ Size(TreeOf(heap, last.root)) = Size(last.before) + 1
        /\ <<last.arg, <<>>, <<>>>> \in Subtrees(TreeOf(heap, last.root))
        /\ DropLeaf(TreeOf(heap, last.root), last.arg) = last.before

\* C30 witness: a value inserted two levels below the root of a BST, as the left
\* child of a node that is not the root.
C30_Witness ==
    /\ last.op = "insert"
    /\ IsBST(last.before)
    /\ last.arg \notin Vals(last.before)
    /\ Size(last.before) >= 2
    /\ Len(PathTo(TreeOf(heap, last.root), last.arg)) = 3
    /\ \E s \in Subtrees(TreeOf(heap, last.root)) :
           s # TreeOf(heap, last.root) /\ s[2] = <<last.arg, <<>>, <<>>>>


\* C31: on a BST T whose node holding v has at most one child, removeNode(T, v)
\* returns T with that node replaced by its only child subtree, or by nothing
\* for a leaf; the spliced subtree and every other link of T are unchanged.
C31_RemoveSplices ==
    (/\ last.op = "remove"
     /\ IsBST(last.before)
     /\ last.arg \in Vals(last.before)
     /\ ~TwoChildrenAt(last.before, last.arg)) =>
        TreeOf(heap, last.root) = Spliced(last.before, last.arg)

\* C31 witness: the removal of a node below the root that has one child, from a
\* BST of three or more nodes: the child takes its place.
C31_Witness ==
    /\ last.op = "remove"
    /\ IsBST(last.before)
    /\ Size(last.before) >= 3
    /\ last.arg # last.before[1]
    /\ \E s \in Subtrees(last.before) :
           s[1] = last.arg /\ ((s[2] = <<>>) # (s[3] = <<>>))
    /\ Size(TreeOf(heap, last.root)) = Size(last.before) - 1
    /\ TreeOf(heap, last.root) = Spliced(last.before, last.arg)


\* C32: every removeNode call emits exactly one 'Removal complete' step, its
\* last; for a BST T and a value v absent from T the returned tree is
\* structurally equal to T and the step before the last is the 'not found' step.
C32_RemoveAbsent ==
    last.op = "remove" =>
        /\ Len(last.steps) >= 1
        /\ \A i \in 1 .. Len(last.steps) :
               (last.steps[i].description.text = "Removal complete") <=> (i = Len(last.steps))
        /\ (IsBST(last.before) /\ last.arg \notin Vals(last.before)) =>
               /\ TreeOf(heap, last.root) = last.before
               /\ Len(last.steps) >= 2
               /\ last.steps[Len(last.steps) - 1].description = D("not found", last.arg, None)

\* C32 witness: the removal of an absent value that lies between the values of a
\* BST of three nodes: the descent reaches null two levels below the root.
C32_Witness ==
    /\ last.op = "remove"
    /\ IsBST(last.before)
    /\ Size(last.before) = 3
    /\ last.arg \notin Vals(last.before)
    /\ \E x, y \in Vals(last.before) : x < last.arg /\ last.arg < y
    /\ TreeOf(heap, last.root) = last.before
    /\ Len(last.steps) >= 6


\* C33: in every step searchNode(T, v) emits for a visited node of the BST T,
\* highlightEdges is the chain of edges from the root to that node, in order
\* (empty at the root), and the keys of highlightNodes are the nodes of that
\* path; when v is matched, the last two steps mark the matched node 'found'.
C33_SearchPath ==
    (last.op = "search" /\ IsBST(last.before)) =>
        /\ \A i \in 1 .. Len(last.steps) :
               last.steps[i].activeNode # None =>
                   /\ last.steps[i].highlightEdges =
                          PathChain(PathTo(last.before, last.steps[i].activeNode))
                   /\ HighlightKeys(last.steps[i]) =
                          {PathTo(last.before, last.steps[i].activeNode)[n] :
                               n \in 1 .. Len(PathTo(last.before, last.steps[i].activeNode))}
        /\ last.found =>
               /\ Len(last.steps) >= 3
               /\ \A i \in {Len(last.steps) - 1, Len(last.steps)} :
                      /\ last.steps[i].activeNode = last.arg
                      /\ last.arg \in KeysOfType(last.steps[i], "found")

\* C33 witness: a search that finds its value two levels below the root of a
\* BST: the closing steps carry the two edges of the path.
C33_Witness ==
    /\ last.op = "search"
    /\ IsBST(last.before)
    /\ last.found
    /\ Len(PathTo(last.before, last.arg)) = 3
    /\ Len(LastStep.highlightEdges) = 2
    /\ Len(last.steps) = 7


\* C34: searchNode, findPredecessor, findSuccessor, selectKth and the three
\* traversals leave every node of the tree they are given as it was, and the
\* tree snapshot of every step they emit is structurally equal to that tree.
C34_ReadOnly ==
    last.op \in ReadOnlyOps =>
        /\ TreeOf(heap, last.T) = last.before
        /\ \A n \in 1 .. Len(Alloc(<<>>, last.before).heap) :
               heap[n] = Alloc(<<>>, last.before).heap[n]
        /\ \A i \in 1 .. Len(last.steps) : TreeOf(heap, last.steps[i].tree) = last.before

\* C34 witness: findPredecessor on a tree of three or more nodes returned a
\* candidate after four or more steps, each with a snapshot of its own.
C34_Witness ==
    /\ last.op = "predecessor"
    /\ Size(last.before) >= 3
    /\ last.result # None
    /\ Len(last.steps) >= 4
    /\ \A i \in 1 .. Len(last.steps) :
           last.steps[i].tree # last.T /\ TreeOf(heap, last.steps[i].tree) = last.before


\* C35: every step's tree is a deep copy of its own: it shares no node object
\* with the input tree, with the operation's working tree and returned root, or
\* with another step's tree, so no write of the operation reaches an emitted step.
C35_SnapshotsIndependent ==
    last.op # "none" =>
        \A i \in 1 .. Len(last.steps) :
            /\ Reach(heap, last.steps[i].tree) \cap OperationNodes = {}
            /\ \A j \in 1 .. Len(last.steps) :
                   i # j => Reach(heap, last.steps[i].tree) \cap Reach(heap, last.steps[j].tree) = {}

\* C35 witness: the removal of a node with two children overwrote that node's
\* value in the working tree after the first steps were emitted; their
\* snapshots still show the input tree.
C35_Witness ==
    /\ last.op = "remove"
    /\ TwoChildrenAt(last.before, last.arg)
    /\ TreeOf(heap, last.root) # last.before
    /\ TreeOf(heap, last.steps[1].tree) = last.before
    /\ TreeOf(heap, last.steps[2].tree) = last.before
    /\ TreeOf(heap, LastStep.tree) = TreeOf(heap, last.root)


\* C36: the snapshot of the last step that insertNode, removeNode and
\* createRandomTree return is structurally equal to the root they return.
C36_LastStepIsRoot ==
    last.op \in {"insert", "remove", "create"} =>
        /\ Len(last.steps) >= 1
        /\ TreeOf(heap, LastStep.tree) = TreeOf(heap, last.root)


\* C36 witness: a value was removed from a tree that createRandomTree built and
\* that still held another value; the last step shows the returned root, which
\* is not the input tree.
C36_Witness ==
    /\ last.op = "remove"
    /\ last.arg \in Vals(last.before)
    /\ \E v \in Vals(last.before) : v > MaxVal
    /\ TreeOf(heap, last.root) # last.before
    /\ TreeOf(heap, LastStep.tree) = TreeOf(heap, last.root)


\* C37: after the go-to-end button's handler has run, the application is in the
\* completed state: animating is false and the current tree is the operation's
\* final tree, values and shape.
C37_GoToEndCompletes ==
    [][HandleGoToEnd =>
           /\ ~animating'
           /\ TreeOf(heap', tree') = TreeOf(heap', finalTree')]_vars


\* C38: for every step list, the empty one included, and after every sequence
\* of controller calls and timer ticks, the cursor lies in 0 .. steps.length and
\* every onStep call made so far was given an element of the step list.
C38_CursorInRange ==
    /\ 0 <= index
    /\ index <= Len(steps)
    /\ \A k \in 1 .. Len(events) :
           events[k].cb = "onStep" => \E i \in 1 .. Len(steps) : events[k].step = steps[i]

\* C38 witness: goToEnd() was called on the empty step list; the cursor is 0 and
\* no onStep call was made.
C38_Witness ==
    /\ steps = <<>>
    /\ LastCall("goToEnd")
    /\ index = 0
    /\ \A k \in 1 .. Len(events) : events[k].cb # "onStep"


\* C39: layoutTree(T, w) returns null for the empty tree and otherwise a tree
\* with T's values and shape in which every node is placed by its in-order
\* rank (0 .. n-1) and its depth (root 0), so that x increases strictly along
\* the in-order sequence.
C39_LayoutByRankAndDepth ==
    last.op = "layout" =>
        /\ (last.before = <<>>) <=> (last.result = <<>>)
        /\ Drawn(last.result) = last.before
        /\ last.result = Placed(last.before, 0, 0,
                                gapOf(Size(last.before), last.arg - PADDING_X * 2))
        /\ \A i, j \in 1 .. Len(InorderXs(last.result)) :
               i < j => Less(InorderXs(last.result)[i], InorderXs(last.result)[j])


\* C40: for every operation kind and every step the operation emits, the
\* step's codeLine, when present, is a zero-based index into the lines
\* registered for that kind; the insert steps createRandomTree replays are
\* read against the lines of 'create'.
C40_CodeLineInRange ==
    \A i \in 1 .. Len(last.steps) :
        last.steps[i].codeLine # None =>
            /\ 0 <= last.steps[i].codeLine
            /\ last.steps[i].codeLine < Len(getPseudocode(last.op))


\* C40 witness: createRandomTree replayed an insert that went right and then
\* created the node: its steps carry the lines 'else if value > this.key' and
\* 'create new node' of 'create', and the summary step carries no line.
C40_Witness ==
    /\ last.op = "create"
    /\ \E i \in 1 .. Len(last.steps) :
           /\ last.steps[i].codeLine # None
           /\ getPseudocode(last.op)[last.steps[i].codeLine + 1] = "else if value > this.key"
    /\ \E i \in 1 .. Len(last.steps) :
           /\ last.steps[i].codeLine # None
           /\ getPseudocode(last.op)[last.steps[i].codeLine + 1] = "  create new node"
    /\ LastStep.codeLine = None

====
